---- MODULE Spec2Model ----
(***************************************************************************)
(* Request signing and dispatch of the Pi42 client (pi42/client.py), the   *)
(* endpoint facades of its public calls (pi42/exchange.py, pi42/market.py),*)
(* its stream supervisor and the supervisor's synchronous wrapper          *)
(* (pi42/websocket.py).                                                    *)
(*                                                                         *)
(* Texts are sequences of one-character strings, so that two texts are     *)
(* equal exactly when they are byte-identical.  A Python scalar is a       *)
(* record [t, s, n, b, k]: t is the type tag, s the text of a str, n the   *)
(* value of an int, b the value of a bool, k the key of an HMAC digest.    *)
(***************************************************************************)
EXTENDS Integers, Sequences, FiniteSets, TLC

VARIABLES api_key, api_secret, pc, call, signed, wire, received, outcome

\* The stream supervisor (WebSocketManager) of the client: its fields, the
\* socket clients it has created, the position of a running close() and,
\* for the properties, what the last step did and which clients had been
\* created before a close() that has returned.
VARIABLES _public_sio, _auth_sio, _listen_key, _callbacks, conns,
          closing, closed, last

\* The synchronous wrapper (WebSocketClient) of the supervisor: its fields,
\* the event loops it has created (each run by a thread of its own), the
\* loop each socket client lives on, the tasks it has created for connect
\* coroutines, and the close() call that waits for its coroutine.
VARIABLES _loop, _task, loops, home, all_tasks, closer

wcvars == <<_loop, _task, loops, home, all_tasks, closer>>

wsvars ==
    <<_public_sio, _auth_sio, _listen_key, _callbacks, conns, closing,
      closed, last>>

callvars == <<pc, call, signed, wire, received, outcome>>

vars ==
    <<api_key, api_secret, pc, call, signed, wire, received, outcome,
      _public_sio, _auth_sio, _listen_key, _callbacks, conns, closing,
      closed, last, _loop, _task, loops, home, all_tasks, closer>>

(***************************************************************************)
(* Bounds of the model.                                                    *)
(***************************************************************************)
MaxParams == 2

\* The socket clients a supervisor creates in one run.
MaxConns == 2

\* The event loops a wrapper creates in one run.
MaxLoops == 2

\* The connect tasks a wrapper creates in one run.
MaxTasks == 2

(***************************************************************************)
(* Python values.                                                          *)
(***************************************************************************)
NoneV == [t |-> "none", s |-> <<>>, n |-> 0, b |-> FALSE, k |-> <<>>]

StrV(x) == [t |-> "str", s |-> x, n |-> 0, b |-> FALSE, k |-> <<>>]

IntV(x) == [t |-> "int", s |-> <<>>, n |-> x, b |-> FALSE, k |-> <<>>]

BoolV(x) == [t |-> "bool", s |-> <<>>, n |-> 0, b |-> x, k |-> <<>>]

\* Python truthiness of a scalar: None, "", 0 and False are falsy.
Truthy(v) ==
    CASE v.t = "none" -> FALSE
      [] v.t = "str"  -> v.s # <<>>
      [] v.t = "int"  -> v.n # 0
      [] v.t = "bool" -> v.b
      [] OTHER        -> TRUE

Digit(d) ==
    CASE d = 0 -> "0" [] d = 1 -> "1" [] d = 2 -> "2" [] d = 3 -> "3"
      [] d = 4 -> "4" [] d = 5 -> "5" [] d = 6 -> "6" [] d = 7 -> "7"
      [] d = 8 -> "8" [] d = 9 -> "9"

RECURSIVE IntToStr(_)
\* str(n) of a non-negative int.
IntToStr(n) ==
    IF n < 10 THEN <<Digit(n)>> ELSE IntToStr(n \div 10) \o <<Digit(n % 10)>>

\* str(v), as an f-string formats a scalar.
PyStr(v) ==
    CASE v.t = "none" -> <<"N", "o", "n", "e">>
      [] v.t = "str"  -> v.s
      [] v.t = "int"  -> IntToStr(v.n)
      [] v.t = "bool" -> IF v.b THEN <<"T", "r", "u", "e">>
                                ELSE <<"F", "a", "l", "s", "e">>

RECURSIVE Join(_, _)
\* sep.join(parts)
Join(parts, sep) ==
    IF parts = <<>> THEN <<>>
    ELSE IF Len(parts) = 1 THEN parts[1]
    ELSE parts[1] \o sep \o Join(Tail(parts), sep)

RECURSIVE Flatten(_)
Flatten(parts) ==
    IF parts = <<>> THEN <<>> ELSE parts[1] \o Flatten(Tail(parts))

(***************************************************************************)
(* Ordered mappings (Python dicts keep insertion order): sequences of      *)
(* [k, v] with distinct keys.                                              *)
(***************************************************************************)
HasKey(d, key) == \E i \in 1..Len(d) : d[i].k = key

\* d[key] = v: replaces the value in place when the key is there, appends
\* the item otherwise.
DictSet(d, key, v) ==
    IF HasKey(d, key)
    THEN [i \in 1..Len(d) |-> IF d[i].k = key THEN [k |-> key, v |-> v] ELSE d[i]]
    ELSE Append(d, [k |-> key, v |-> v])

\* d.get(key, default)
DictGet(d, key, default) ==
    IF HasKey(d, key)
    THEN d[CHOOSE i \in 1..Len(d) : d[i].k = key].v
    ELSE default

(***************************************************************************)
(* Texts the code writes.                                                  *)
(***************************************************************************)
TIMESTAMP == <<"t", "i", "m", "e", "s", "t", "a", "m", "p">>

MESSAGE == <<"m", "e", "s", "s", "a", "g", "e">>

CODE == <<"c", "o", "d", "e">>

UNKNOWN_ERROR == <<"U", "n", "k", "n", "o", "w", "n", " ", "e", "r", "r", "o", "r">>

HTTP_ERROR == <<"H", "T", "T", "P", " ", "E", "r", "r", "o", "r", ":", " ">>

base_url == "https://fapi.pi42.com"

public_url == "https://api.pi42.com"

(***************************************************************************)
(* The serialisations the code signs.                                      *)
(***************************************************************************)
\* "&".join([f"{k}={v}" for k, v in actual_params.items()])
QueryString(d) ==
    Join([i \in 1..Len(d) |-> d[i].k \o <<"=">> \o PyStr(d[i].v)], <<"&">>)

JsonEscapeChar(c) ==
    CASE c = "\"" -> <<"\\", "\"">>
      [] c = "\\" -> <<"\\", "\\">>
      [] OTHER    -> <<c>>

\* json.dumps of a str.
JsonString(x) ==
    <<"\"">> \o Flatten([i \in 1..Len(x) |-> JsonEscapeChar(x[i])]) \o <<"\"">>

\* json.dumps of a scalar.
JsonScalar(v) ==
    CASE v.t = "none" -> <<"n", "u", "l", "l">>
      [] v.t = "str"  -> JsonString(v.s)
      [] v.t = "int"  -> IntToStr(v.n)
      [] v.t = "bool" -> IF v.b THEN <<"t", "r", "u", "e">>
                                ELSE <<"f", "a", "l", "s", "e">>

\* json.dumps(d, separators=(item_sep, key_sep)) of a flat dict.
JsonDumps(d, item_sep, key_sep) ==
    <<"{">>
    \o Join([i \in 1..Len(d) |->
                JsonString(d[i].k) \o key_sep \o JsonScalar(d[i].v)], item_sep)
    \o <<"}">>

\* The bug of leaving the separators out: json.dumps(actual_params).
CompactJson_DefaultSeparators(d) == JsonDumps(d, <<",", " ">>, <<":", " ">>)

\* json.dumps(actual_params, separators=(',', ':'))
CompactJson(d) == JsonDumps(d, <<",">>, <<":">>)

(***************************************************************************)
(* What the HTTP library transmits for the arguments the code hands it.    *)
(***************************************************************************)
\* urllib's quote_plus on the characters of the model's texts.
QuoteChar(c) ==
    CASE c = " "  -> <<"+">>
      [] c = "+"  -> <<"%", "2", "B">>
      [] c = "&"  -> <<"%", "2", "6">>
      [] c = "="  -> <<"%", "3", "D">>
      [] c = "/"  -> <<"%", "2", "F">>
      [] c = "\"" -> <<"%", "2", "2">>
      [] OTHER    -> <<c>>

QuotePlus(x) == Flatten([i \in 1..Len(x) |-> QuoteChar(x[i])])

IsNotNone(item) == item.v.t # "none"

\* requests.get(url, params=d): items whose value is None are left out, the
\* others are form-encoded.
EncodeParams(d) ==
    LET kept == SelectSeq(d, IsNotNone)
    IN  Join([i \in 1..Len(kept) |->
                 QuotePlus(kept[i].k) \o <<"=">> \o QuotePlus(PyStr(kept[i].v))],
             <<"&">>)

\* requests.post(url, json=d): the body is json.dumps(d) with the default
\* separators.
EncodeJsonBody(d) == JsonDumps(d, <<",", " ">>, <<":", " ">>)

\* Headers whose value is None are not sent.
EncodeHeaders(h) == SelectSeq(h, IsNotNone)

(***************************************************************************)
(* Signer.                                                                 *)
(***************************************************************************)
\* hmac.new(secret, data, sha256).hexdigest(): the digest of data under the
\* key secret, kept symbolic (two digests are equal exactly when their keys
\* and their data are).
HmacSha256(secret, data) ==
    [t |-> "hmac", s |-> data, n |-> 0, b |-> FALSE, k |-> secret]

\* The bug of testing the secret against None only: an empty secret signs.
_generate_signature_NoneOnly(secret, data_to_sign) ==
    IF secret.t = "none"
    THEN [raised |-> TRUE, value |-> NoneV]
    ELSE [raised |-> FALSE, value |-> HmacSha256(secret.s, data_to_sign)]

\* The bug of a signature that is no digest: the secret joined to the data.
_generate_signature_Plain(secret, data_to_sign) ==
    IF ~Truthy(secret)
    THEN [raised |-> TRUE, value |-> NoneV]
    ELSE [raised |-> FALSE, value |-> StrV(secret.s \o data_to_sign)]

\* Pi42Client._generate_signature: raises ValueError when the secret is
\* falsy, returns the digest otherwise.
_generate_signature(secret, data_to_sign) ==
    IF ~Truthy(secret)
    THEN [raised |-> TRUE, value |-> NoneV]
    ELSE [raised |-> FALSE, value |-> HmacSha256(secret.s, data_to_sign)]

\* Pi42Client._get_timestamp at the clock reading ms: str(int(ms)).
_get_timestamp(ms) == StrV(IntToStr(ms))

(***************************************************************************)
(* Responses and outcomes.                                                 *)
(***************************************************************************)
NoPayload == [t |-> "none", items |-> <<>>, s |-> <<>>]

JDict(items) == [t |-> "dict", items |-> items, s |-> <<>>]

JList == [t |-> "list", items |-> <<>>, s |-> <<>>]

JText(x) == [t |-> "str", items |-> <<>>, s |-> x]

\* The call returned payload.
Returned(payload) ==
    [kind |-> "return", status |-> 0, message |-> NoneV, code |-> NoneV,
     payload |-> payload]

\* The call raised the exception kind.
Raised(kind, status, message, code) ==
    [kind |-> kind, status |-> status, message |-> message, code |-> code,
     payload |-> NoPayload]

NoOutcome == Raised("none", 0, NoneV, NoneV)

\* Response bodies a server may send.
BODY_ERROR ==
    JsonDumps(<<[k |-> MESSAGE, v |-> StrV(<<"b", "a", "d">>)],
                [k |-> CODE, v |-> StrV(<<"E", "1">>)]>>, <<",">>, <<":">>)

BODY_MESSAGE ==
    JsonDumps(<<[k |-> MESSAGE, v |-> StrV(<<"b", "a", "d">>)]>>, <<",">>, <<":">>)

BODY_DATA ==
    JsonDumps(<<[k |-> <<"d", "a", "t", "a">>, v |-> IntV(1)]>>, <<",">>, <<":">>)

BODY_LIST == <<"[", "]">>

BODY_TEXT == <<"o", "o", "p", "s">>

\* The response body of the listen-key endpoint.
LISTEN_KEY == <<"l", "i", "s", "t", "e", "n", "K", "e", "y">>

BODY_LISTEN_KEY ==
    JsonDumps(<<[k |-> LISTEN_KEY, v |-> StrV(<<"L">>)]>>, <<",">>, <<":">>)

Bodies == {BODY_ERROR, BODY_MESSAGE, BODY_DATA, BODY_LIST, BODY_TEXT}

Statuses == {200, 201, 400, 500}

\* response.json(): the parsed body, or invalid when the body is not JSON
\* (json() raises a ValueError then).
ResponseJson(text) ==
    CASE text = BODY_ERROR ->
            [valid |-> TRUE,
             value |-> JDict(<<[k |-> MESSAGE, v |-> StrV(<<"b", "a", "d">>)],
                               [k |-> CODE, v |-> StrV(<<"E", "1">>)]>>)]
      [] text = BODY_MESSAGE ->
            [valid |-> TRUE,
             value |-> JDict(<<[k |-> MESSAGE, v |-> StrV(<<"b", "a", "d">>)]>>)]
      [] text = BODY_DATA ->
            [valid |-> TRUE,
             value |-> JDict(<<[k |-> <<"d", "a", "t", "a">>, v |-> IntV(1)]>>)]
      [] text = BODY_LIST -> [valid |-> TRUE, value |-> JList]
      [] text = BODY_LISTEN_KEY ->
            [valid |-> TRUE,
             value |-> JDict(<<[k |-> LISTEN_KEY, v |-> StrV(<<"L">>)]>>)]
      [] OTHER -> [valid |-> FALSE, value |-> NoPayload]

\* requests.Response.ok: raise_for_status raises for 400 <= status < 600.
ResponseOk(status) == ~(400 <= status /\ status < 600)

\* The bug of a missing fallback: a 2xx body that is not JSON is an error.
_handle_response_NoTextFallback(response) ==
    LET parsed == ResponseJson(response.text)
    IN  IF ~parsed.valid
        THEN Raised("Pi42RequestError", 0,
                    StrV(HTTP_ERROR \o IntToStr(response.status)
                         \o <<" ", "-", " ">> \o response.text),
                    NoneV)
        ELSE IF ~ResponseOk(response.status)
        THEN Raised("Pi42APIError", response.status,
                    DictGet(parsed.value.items, MESSAGE, StrV(UNKNOWN_ERROR)),
                    DictGet(parsed.value.items, CODE, NoneV))
        ELSE Returned(parsed.value)

\* Pi42Client._handle_response
_handle_response(response) ==
    LET parsed == ResponseJson(response.text)
    IN  IF ~ResponseOk(response.status)
        THEN IF ~parsed.valid
             THEN Raised("Pi42RequestError", 0,
                         StrV(HTTP_ERROR \o IntToStr(response.status)
                              \o <<" ", "-", " ">> \o response.text),
                         NoneV)
             ELSE IF parsed.value.t # "dict"
             THEN \* error_data.get on a list: not a ValueError or KeyError
                  Raised("AttributeError", 0, NoneV, NoneV)
             ELSE Raised("Pi42APIError", response.status,
                         DictGet(parsed.value.items, MESSAGE, StrV(UNKNOWN_ERROR)),
                         DictGet(parsed.value.items, CODE, NoneV))
        ELSE IF parsed.valid
             THEN Returned(parsed.value)
             ELSE Returned(JText(response.text))

\* The bug of a retry: a failed request is sent a second time.
TrySend_Retry(request, reply) ==
    [wire |-> IF reply.err THEN <<request, request>> ELSE <<request>>,
     outcome |-> IF reply.err
                 THEN Raised("Pi42RequestError", 0, StrV(reply.desc), NoneV)
                 ELSE _handle_response(reply)]

\* The try block around the HTTP call: the request is handed to the
\* transport once; a requests.RequestException becomes Pi42RequestError(str(e)),
\* a response goes through _handle_response.  reply is what the transport
\* does with the request.
TrySend(request, reply) ==
    [wire |-> <<request>>,
     outcome |-> IF reply.err
                 THEN Raised("Pi42RequestError", 0, StrV(reply.desc), NoneV)
                 ELSE _handle_response(reply)]

(***************************************************************************)
(* Inputs of the model.                                                    *)
(***************************************************************************)
Keys == {<<"b">>, <<"a">>, TIMESTAMP}

Values == {StrV(<<"x", " ", "y">>), IntV(7), BoolV(TRUE), NoneV}

Items == [k : Keys, v : Values]

\* The dicts a caller may pass: up to MaxParams items, keys distinct.
Dicts ==
    {d \in UNION {[1..n -> Items] : n \in 0..MaxParams} :
        \A i, j \in 1..Len(d) : i # j => d[i].k # d[j].k}

\* The params argument: None (not given) or a dict.
ParamArgs ==
    {[given |-> FALSE, d |-> <<>>]} \cup {[given |-> TRUE, d |-> d] : d \in Dicts}

Endpoints == {"/v1/order/place-order"}

\* Readings of the clock, in milliseconds.
Times == {1700, 1701}

\* What the transport does with a request: it fails (DNS, connection
\* refused, timeout) or it delivers a response.
Replies ==
    {[err |-> TRUE, desc |-> <<"t", "i", "m", "e", "d", " ", "o", "u", "t">>,
      status |-> 0, text |-> <<>>]}
    \cup {[err |-> FALSE, desc |-> <<>>, status |-> st, text |-> body] :
            st \in Statuses, body \in Bodies}

\* No reply: nothing was sent.
NoReply == [err |-> FALSE, desc |-> <<>>, status |-> 0, text |-> <<>>]

ApiKeys == {NoneV, StrV(<<"k">>)}

ApiSecrets == {NoneV, StrV(<<>>), StrV(<<"s">>)}

(***************************************************************************)
(* The dispatcher.                                                         *)
(***************************************************************************)
NoCall ==
    [op |-> "none", endpoint |-> "", params |-> [given |-> FALSE, d |-> <<>>],
     public |-> FALSE, ms |-> 0]

\* params.copy() if params else {}
ParamsCopy(p) == IF p.given /\ p.d # <<>> THEN p.d ELSE <<>>

\* The request as the HTTP library transmits it: requests.get(url,
\* params=..., headers=...) puts the params in the query string,
\* requests.post/put/delete(url, json=..., headers=...) in a JSON body.
HttpRequest(method, base, endpoint, params, headers) ==
    [method |-> method, base |-> base, endpoint |-> endpoint, params |-> params,
     query |-> IF method = "GET" THEN EncodeParams(params) ELSE <<>>,
     body |-> IF method = "GET" THEN <<>> ELSE EncodeJsonBody(params),
     headers |-> EncodeHeaders(headers)]

NotSigned == [raised |-> FALSE, value |-> NoneV]

\* headers of an authenticated GET
GetAuthHeaders(signature) ==
    <<[k |-> "api-key", v |-> api_key],
      [k |-> "signature", v |-> signature],
      [k |-> "accept", v |-> StrV(<<"*", "/", "*">>)]>>

\* headers of an authenticated POST, PUT or DELETE
BodyAuthHeaders(signature) ==
    <<[k |-> "api-key", v |-> api_key],
      [k |-> "Content-Type", v |-> StrV(<<"j", "s", "o", "n">>)],
      [k |-> "signature", v |-> signature]>>

\* The bug of sending the api key with a public POST.
PostPublicHeaders_WithKey ==
    <<[k |-> "api-key", v |-> api_key],
      [k |-> "Content-Type", v |-> StrV(<<"j", "s", "o", "n">>)]>>

\* headers of a public POST
PostPublicHeaders == <<[k |-> "Content-Type", v |-> StrV(<<"j", "s", "o", "n">>)]>>

\* The end of a dispatch operation: the ValueError of _generate_signature
\* leaves it before anything is sent; otherwise the request is sent and the
\* reply handled.
Complete(c, to_sign, sig, request, reply) ==
    /\ pc' = "returned"
    /\ call' = c
    /\ signed' = to_sign
    /\ IF sig.raised
       THEN /\ wire' = <<>>
            /\ received' = NoReply
            /\ outcome' = Raised("ValueError", 0, NoneV, NoneV)
       ELSE LET r == TrySend(request, reply)
            IN  /\ wire' = r.wire
                /\ received' = reply
                /\ outcome' = r.outcome
    /\ UNCHANGED <<api_key, api_secret>>
    /\ UNCHANGED wsvars
    /\ UNCHANGED wcvars

\* The HTTP method of a dispatch operation.
MethodOf(op) ==
    CASE op = "get_request" -> "GET"
      [] op = "post_request" -> "POST"
      [] op = "put_request" -> "PUT"
      [] op = "delete_request" -> "DELETE"

\* What a dispatch operation of a client whose secret is secret builds
\* before it sends: the string it signs (none for a public call), the
\* signature and the request.  GET signs the '&'-join of the params and
\* sends them in the query; POST, PUT and DELETE sign the compact JSON of
\* the params and send them as a JSON body.
Prepared(method, endpoint, p, public, ms, secret) ==
    LET base == IF public THEN public_url ELSE base_url
        copy == ParamsCopy(p)
        actual_params ==
            IF public THEN copy ELSE DictSet(copy, TIMESTAMP, _get_timestamp(ms))
        data_to_sign ==
            IF method = "GET" THEN QueryString(actual_params)
            ELSE CompactJson(actual_params)
        sig == IF public THEN NotSigned
               ELSE _generate_signature(secret, data_to_sign)
        headers ==
            IF method = "GET"
            THEN IF public THEN <<>> ELSE GetAuthHeaders(sig.value)
            ELSE IF public THEN PostPublicHeaders
                 ELSE BodyAuthHeaders(sig.value)
    IN  [to_sign |-> IF public THEN <<>> ELSE <<data_to_sign>>,
         sig |-> sig,
         request |-> HttpRequest(method, base, endpoint, actual_params,
                                 headers)]

\* Pi42Client.get_request
get_request(endpoint, p, public, ms, reply) ==
    LET r == Prepared("GET", endpoint, p, public, ms, api_secret)
    IN  Complete([op |-> "get_request", endpoint |-> endpoint, params |-> p,
                  public |-> public, ms |-> ms],
                 r.to_sign, r.sig, r.request, reply)

\* Pi42Client.post_request
post_request(endpoint, p, public, ms, reply) ==
    LET r == Prepared("POST", endpoint, p, public, ms, api_secret)
    IN  Complete([op |-> "post_request", endpoint |-> endpoint, params |-> p,
                  public |-> public, ms |-> ms],
                 r.to_sign, r.sig, r.request, reply)

\* Pi42Client.put_request: always authenticated
put_request(endpoint, p, ms, reply) ==
    LET r == Prepared("PUT", endpoint, p, FALSE, ms, api_secret)
    IN  Complete([op |-> "put_request", endpoint |-> endpoint, params |-> p,
                  public |-> FALSE, ms |-> ms],
                 r.to_sign, r.sig, r.request, reply)

\* Pi42Client.delete_request: always authenticated
delete_request(endpoint, p, ms, reply) ==
    LET r == Prepared("DELETE", endpoint, p, FALSE, ms, api_secret)
    IN  Complete([op |-> "delete_request", endpoint |-> endpoint, params |-> p,
                  public |-> FALSE, ms |-> ms],
                 r.to_sign, r.sig, r.request, reply)

(***************************************************************************)
(* The stream supervisor (WebSocketManager).  A socket client is a record  *)
(* of conns; the supervisor's _public_sio and _auth_sio hold the index of  *)
(* a client, 0 for None.  A client is connecting (connect called, the      *)
(* handshake not yet acknowledged), connected, disconnecting (disconnect   *)
(* called, not yet complete) or disconnected; retry says that the          *)
(* client's own reconnect task is running.                                 *)
(***************************************************************************)
\* the event types connect_public registers a handler for
PublicEvents ==
    {"depthUpdate", "kline", "markPriceUpdate", "aggTrade", "24hrTicker",
     "marketInfo", "markPriceArr", "tickerArr"}

\* the event types connect_authenticated registers a handler for
AuthEvents ==
    {"newPosition", "orderFilled", "orderPartiallyFilled", "orderCancelled",
     "orderFailed", "newOrder", "updateOrder", "updatePosition",
     "closePosition", "balanceUpdate", "newTrade", "sessionExpired"}

\* The event types the client of a connection has a handler for.
Registered(kind) == IF kind = "public" THEN PublicEvents ELSE AuthEvents

\* socketio.AsyncClient(): no argument is given, so the client is built with
\* the library's defaults, of which reconnection is True.
AsyncClient(kind, topics, key) ==
    [kind |-> kind, state |-> "connecting", reconnection |-> TRUE,
     retry |-> FALSE, topics |-> topics, key |-> key]

\* None, where the index of a client is expected.
NoConn == 0

\* sio.connected
IsConnected(sio) == sio.state \in {"connected", "disconnecting"}

NoTopics == [given |-> FALSE, list |-> <<>>]

TopicList(list) == [given |-> TRUE, list |-> list]

\* if topics:
TopicsTruthy(topics) == topics.given /\ topics.list # <<>>

\* What one step did: the operation, the error it raised, the client it
\* was about, the listen key or the event type and callback it was called
\* with, the event dispatched and the callbacks invoked for it, the
\* messages emitted, the disconnects started and the HTTP requests sent.
Step(op) ==
    [op |-> op, err |-> "", conn |-> NoConn, key |-> NoneV, tag |-> "",
     callback |-> 0, payload |-> "", invoked |-> <<>>, emits |-> <<>>,
     started |-> {}, http |-> <<>>]

\* sio.emit('subscribe', {'params': topics}): the library sends the message
\* when the namespace of the client is connected and raises its
\* BadNamespaceError otherwise.
Emit(cs, c, topics) ==
    IF IsConnected(cs[c])
    THEN [err |-> "",
          emits |-> <<[conn |-> c, event |-> "subscribe", params |-> topics]>>]
    ELSE [err |-> "BadNamespaceError", emits |-> <<>>]

\* The bug of a missing guard: the message is emitted on whatever
\* _public_sio holds.
subscribe_public_NoGuard(sio, cs, topics) ==
    IF sio = NoConn
    THEN [err |-> "AttributeError", emits |-> <<>>]
    ELSE Emit(cs, sio, topics)

\* WebSocketManager.subscribe_public, with sio the value of _public_sio and
\* cs the clients at the time of the call.
subscribe_public(sio, cs, topics) ==
    IF sio = NoConn
    THEN [err |-> "ValueError", emits |-> <<>>]
    ELSE Emit(cs, sio, topics)

\* The bug of a registry that the authenticated client does not look into.
handler_AuthUnserved(callbacks, kind, tag, data) ==
    IF kind = "public" /\ tag \in Registered(kind) /\ callbacks[tag] # 0
    THEN <<[callback |-> callbacks[tag], data |-> data]>>
    ELSE <<>>

\* The bug of a handler that passes the event on twice.
handler_Twice(callbacks, kind, tag, data) ==
    IF tag \in Registered(kind) /\ callbacks[tag] # 0
    THEN <<[callback |-> callbacks[tag], data |-> data],
           [callback |-> callbacks[tag], data |-> data]>>
    ELSE <<>>

\* The handler of _register_public_event_handler and
\* _register_auth_event_handler for an inbound event: the client has a
\* handler for the registered event types only; the handler looks the
\* callback up and calls it with the data, or prints the event.
handler(callbacks, kind, tag, data) ==
    IF tag \in Registered(kind) /\ callbacks[tag] # 0
    THEN <<[callback |-> callbacks[tag], data |-> data]>>
    ELSE <<>>

\* The bug of a registry that keeps the first callback of an event type.
on_KeepFirst(callbacks, event_type, callback) ==
    IF callbacks[event_type] # 0 THEN callbacks
    ELSE [callbacks EXCEPT ![event_type] = callback]

\* WebSocketManager.on: self._callbacks[event_type] = callback
on(callbacks, event_type, callback) ==
    [callbacks EXCEPT ![event_type] = callback]

\* The event types and callbacks of the model; 0 is no callback.
EventTypes == {"24hrTicker", "newOrder", "unknownEvent"}

Callbacks == {1, 2}

\* The registrations a caller makes.
OnArgs ==
    {[event_type |-> "24hrTicker", callback |-> 1],
     [event_type |-> "24hrTicker", callback |-> 2],
     [event_type |-> "newOrder", callback |-> 1],
     [event_type |-> "unknownEvent", callback |-> 1]}

Payloads == {"tick"}

TopicArgs == {NoTopics, TopicList(<<>>), TopicList(<<"btcinr@ticker">>)}

\* The listen_key argument of connect_authenticated.
ListenKeyArgs == {NoneV, StrV(<<>>), StrV(<<"L">>)}

\* What the transport does with the listen-key request.
ListenKeyReplies ==
    {[err |-> TRUE, desc |-> <<"t", "i", "m", "e", "d", " ", "o", "u", "t">>,
      status |-> 0, text |-> <<>>],
     [err |-> FALSE, desc |-> <<>>, status |-> 200, text |-> BODY_LISTEN_KEY],
     [err |-> FALSE, desc |-> <<>>, status |-> 200, text |-> BODY_DATA],
     [err |-> FALSE, desc |-> <<>>, status |-> 200, text |-> BODY_TEXT],
     [err |-> FALSE, desc |-> <<>>, status |-> 400, text |-> BODY_ERROR]}

\* UserDataAPI.create_listen_key: post_request("/v1/retail/listen-key"), an
\* authenticated POST without parameters.
create_listen_key(ms, reply) ==
    LET r == Prepared("POST", "/v1/retail/listen-key",
                      [given |-> FALSE, d |-> <<>>], FALSE, ms, api_secret)
    IN  IF r.sig.raised
        THEN [wire |-> <<>>, outcome |-> Raised("ValueError", 0, NoneV, NoneV)]
        ELSE TrySend(r.request, reply)

\* The bug of a credentials check that looks at the secret only.
ResolveListenKey_SecretOnly(listen_key, ms, reply) ==
    IF Truthy(listen_key)
    THEN [err |-> "", key |-> listen_key, http |-> <<>>]
    ELSE IF ~Truthy(api_secret)
    THEN [err |-> "ValueError", key |-> NoneV, http |-> <<>>]
    ELSE LET r == create_listen_key(ms, reply)
         IN  IF r.outcome.kind # "return"
             THEN [err |-> r.outcome.kind, key |-> NoneV, http |-> r.wire]
             ELSE IF r.outcome.payload.t # "dict"
             THEN [err |-> "AttributeError", key |-> NoneV, http |-> r.wire]
             ELSE [err |-> "",
                   key |-> DictGet(r.outcome.payload.items, LISTEN_KEY, NoneV),
                   http |-> r.wire]

\* The head of connect_authenticated: the listen key to connect with.  A
\* key that is given is used; otherwise the client needs its credentials
\* and asks the server for a key: response.get("listenKey") of what
\* create_listen_key returns, an AttributeError when that is not a dict.
ResolveListenKey(listen_key, ms, reply) ==
    IF Truthy(listen_key)
    THEN [err |-> "", key |-> listen_key, http |-> <<>>]
    ELSE IF ~Truthy(api_key) \/ ~Truthy(api_secret)
    THEN [err |-> "ValueError", key |-> NoneV, http |-> <<>>]
    ELSE LET r == create_listen_key(ms, reply)
         IN  IF r.outcome.kind # "return"
             THEN [err |-> r.outcome.kind, key |-> NoneV, http |-> r.wire]
             ELSE IF r.outcome.payload.t # "dict"
             THEN [err |-> "AttributeError", key |-> NoneV, http |-> r.wire]
             ELSE [err |-> "",
                   key |-> DictGet(r.outcome.payload.items, LISTEN_KEY, NoneV),
                   http |-> r.wire]

\* No close() is running.  Of a running close(), tasks are the clients whose
\* disconnect it awaits and before the clients that existed when it was
\* called.
NotClosing == [tasks |-> {}, before |-> {}]

\* WebSocketManager.__init__
WebSocketManagerInit ==
    /\ _public_sio = NoConn
    /\ _auth_sio = NoConn
    /\ _listen_key = NoneV
    /\ _callbacks = [t \in EventTypes |-> 0]
    /\ conns = <<>>
    /\ closing = NotClosing
    /\ closed = {}
    /\ last = Step("init")

\* No loop, no task (None).
NoLoop == 0

NoTask == 0

\* The thread of the caller of the wrapper; the thread of a loop is named by
\* the index of the loop.
MainThread == 0

\* No close() call is waiting.
NoCloser == [thread |-> MainThread, loop |-> NoLoop, state |-> "none"]

\* WebSocketClient.__init__
WebSocketClientInit ==
    /\ _loop = NoLoop
    /\ _task = NoTask
    /\ loops = <<>>
    /\ home = <<>>
    /\ all_tasks = <<>>
    /\ closer = NoCloser

(***************************************************************************)
(* The state machine: a client is constructed with its credentials; the    *)
(* caller makes one dispatch call after the other.  Nothing of a call      *)
(* outlives its return.                                                    *)
(***************************************************************************)
\* Pi42Client.__init__
Init ==
    /\ api_key \in ApiKeys
    /\ api_secret \in ApiSecrets
    /\ pc = "idle"
    /\ call = NoCall
    /\ signed = <<>>
    /\ wire = <<>>
    /\ received = NoReply
    /\ outcome = NoOutcome
    /\ WebSocketManagerInit
    /\ WebSocketClientInit

GetRequest ==
    /\ pc = "idle"
    /\ \E e \in Endpoints, p \in ParamArgs, public \in BOOLEAN, ms \in Times,
          reply \in Replies :
           get_request(e, p, public, ms, reply)

PostRequest ==
    /\ pc = "idle"
    /\ \E e \in Endpoints, p \in ParamArgs, public \in BOOLEAN, ms \in Times,
          reply \in Replies :
           post_request(e, p, public, ms, reply)

PutRequest ==
    /\ pc = "idle"
    /\ \E e \in Endpoints, p \in ParamArgs, ms \in Times, reply \in Replies :
           put_request(e, p, ms, reply)

DeleteRequest ==
    /\ pc = "idle"
    /\ \E e \in Endpoints, p \in ParamArgs, ms \in Times, reply \in Replies :
           delete_request(e, p, ms, reply)

\* The caller has the outcome of the call; its locals are gone.
Return ==
    /\ pc = "returned"
    /\ pc' = "idle"
    /\ call' = NoCall
    /\ signed' = <<>>
    /\ wire' = <<>>
    /\ received' = NoReply
    /\ outcome' = NoOutcome
    /\ UNCHANGED <<api_key, api_secret>>
    /\ UNCHANGED wsvars
    /\ UNCHANGED wcvars

Next ==
    \/ GetRequest
    \/ PostRequest
    \/ PutRequest
    \/ DeleteRequest
    \/ Return

Spec == Init /\ [][Next]_vars

(***************************************************************************)
(* The state machine of the stream supervisor.  Its coroutines run on one  *)
(* event loop: a step is the code between two awaits.  The caller starts   *)
(* connects, subscribes, registers callbacks and closes; the transport     *)
(* acknowledges or refuses handshakes, delivers events, drops connections  *)
(* and completes disconnects.                                              *)
(***************************************************************************)
Clients == 1..Len(conns)

\* WebSocketManager.connect_public up to its await of sio.connect
connect_public(topics) ==
    /\ conns' = Append(conns, AsyncClient("public", topics, NoneV))
    /\ _public_sio' = Len(conns) + 1
    /\ last' = [Step("connect_public") EXCEPT !.conn = Len(conns) + 1]
    /\ UNCHANGED <<_auth_sio, _listen_key, _callbacks, closing, closed>>

ConnectPublic ==
    /\ Len(conns) < MaxConns
    /\ \E topics \in TopicArgs : connect_public(topics)
    /\ UNCHANGED <<api_key, api_secret, callvars>>

\* WebSocketManager.connect_authenticated up to its await of sio.connect
connect_authenticated(listen_key, ms, reply) ==
    LET r == ResolveListenKey(listen_key, ms, reply)
    IN  IF r.err # ""
        THEN /\ last' = [Step("connect_authenticated") EXCEPT
                            !.key = listen_key, !.err = r.err,
                            !.http = r.http]
             /\ UNCHANGED <<_public_sio, _auth_sio, _listen_key, _callbacks,
                            conns, closing, closed>>
        ELSE /\ _listen_key' = r.key
             /\ conns' = Append(conns, AsyncClient("auth", NoTopics, r.key))
             /\ _auth_sio' = Len(conns) + 1
             /\ last' = [Step("connect_authenticated") EXCEPT
                            !.key = listen_key, !.conn = Len(conns) + 1,
                            !.http = r.http]
             /\ UNCHANGED <<_public_sio, _callbacks, closing, closed>>

ConnectAuthenticated ==
    /\ Len(conns) < MaxConns
    /\ \E listen_key \in ListenKeyArgs, ms \in Times,
          reply \in ListenKeyReplies :
           connect_authenticated(listen_key, ms, reply)
    /\ UNCHANGED <<api_key, api_secret, callvars>>

\* The caller calls subscribe_public.
SubscribePublic ==
    /\ \E list \in TopicArgs :
           LET r == subscribe_public(_public_sio, conns, list)
           IN  last' = [Step("subscribe_public") EXCEPT
                           !.conn = _public_sio, !.err = r.err,
                           !.emits = r.emits]
    /\ UNCHANGED <<_public_sio, _auth_sio, _listen_key, _callbacks, conns,
                   closing, closed>>
    /\ UNCHANGED <<api_key, api_secret, callvars>>

\* The caller registers a callback.
On ==
    /\ \E a \in OnArgs :
           /\ _callbacks' = on(_callbacks, a.event_type, a.callback)
           /\ last' = [Step("on") EXCEPT !.tag = a.event_type,
                                         !.callback = a.callback]
    /\ UNCHANGED <<_public_sio, _auth_sio, _listen_key, conns, closing,
                   closed>>
    /\ UNCHANGED <<api_key, api_secret, callvars>>

\* The bug of disconnecting every client the supervisor holds.
CloseTasks_AllHeld == {_public_sio, _auth_sio} \ {NoConn}

\* The clients close() disconnects: those the supervisor holds and that say
\* they are connected.
CloseTasks ==
    {c \in {_public_sio, _auth_sio} \ {NoConn} : IsConnected(conns[c])}

\* The end of close(): the supervisor forgets its clients.
CloseReturn(tasks, before) ==
    /\ _public_sio' = NoConn
    /\ _auth_sio' = NoConn
    /\ closing' = NotClosing
    /\ closed' = closed \cup before
    /\ last' = [Step("close") EXCEPT !.started = tasks]

\* WebSocketManager.close up to its await of asyncio.gather; without a task
\* there is no await and close() runs to its end.
Close ==
    /\ closing = NotClosing
    /\ IF CloseTasks = {}
       THEN /\ CloseReturn({}, Clients)
            /\ UNCHANGED conns
       ELSE /\ conns' = [c \in Clients |->
                            IF c \in CloseTasks
                            THEN [conns[c] EXCEPT !.state = "disconnecting"]
                            ELSE conns[c]]
            /\ closing' = [tasks |-> CloseTasks, before |-> Clients]
            /\ last' = [Step("close_start") EXCEPT !.started = CloseTasks]
            /\ UNCHANGED <<_public_sio, _auth_sio, closed>>
    /\ UNCHANGED <<_listen_key, _callbacks>>
    /\ UNCHANGED <<api_key, api_secret, callvars>>

\* asyncio.gather returns when every disconnect has completed.
CloseFinish ==
    /\ closing # NotClosing
    /\ \A c \in closing.tasks : conns[c].state = "disconnected"
    /\ CloseReturn(closing.tasks, closing.before)
    /\ UNCHANGED <<_listen_key, _callbacks, conns>>
    /\ UNCHANGED <<api_key, api_secret, callvars>>

\* The transport completes a disconnect that the client asked for.
DisconnectDone ==
    /\ \E c \in Clients :
           /\ conns[c].state = "disconnecting"
           /\ conns' = [conns EXCEPT ![c].state = "disconnected",
                                     ![c].retry = FALSE]
           /\ last' = [Step("disconnected") EXCEPT !.conn = c]
    /\ UNCHANGED <<_public_sio, _auth_sio, _listen_key, _callbacks, closing,
                   closed>>
    /\ UNCHANGED <<api_key, api_secret, callvars>>

\* The server acknowledges the handshake of a client; the client runs its
\* connect handler: the public one subscribes to the topics of its
\* connect_public call through subscribe_public.
ConnectAck ==
    /\ \E c \in Clients :
           /\ conns[c].state = "connecting"
           /\ conns' = [conns EXCEPT ![c].state = "connected",
                                     ![c].retry = FALSE]
           /\ LET r == IF conns[c].kind = "public"
                          /\ TopicsTruthy(conns[c].topics)
                       THEN subscribe_public(_public_sio, conns',
                                             conns[c].topics)
                       ELSE [err |-> "", emits |-> <<>>]
              IN  last' = [Step("connect_ack") EXCEPT
                              !.conn = c, !.err = r.err, !.emits = r.emits]
    /\ UNCHANGED <<_public_sio, _auth_sio, _listen_key, _callbacks, closing,
                   closed>>
    /\ UNCHANGED <<api_key, api_secret, callvars>>

\* The handshake of a client fails: sio.connect raises its ConnectionError
\* in the connect call; an attempt of the client's reconnect task is
\* followed by another.
ConnectFail ==
    /\ \E c \in Clients :
           /\ conns[c].state = "connecting"
           /\ conns' = [conns EXCEPT ![c].state = "disconnected"]
           /\ last' = [Step("connect_fail") EXCEPT
                          !.conn = c,
                          !.err = IF conns[c].retry THEN ""
                                  ELSE "ConnectionError"]
    /\ UNCHANGED <<_public_sio, _auth_sio, _listen_key, _callbacks, closing,
                   closed>>
    /\ UNCHANGED <<api_key, api_secret, callvars>>

\* The transport of a connected client fails: the client is disconnected
\* and, built with reconnection, starts its reconnect task.
TransportDrop ==
    /\ \E c \in Clients :
           /\ conns[c].state = "connected"
           /\ conns' = [conns EXCEPT ![c].state = "disconnected",
                                     ![c].retry = conns[c].reconnection]
           /\ last' = [Step("transport_drop") EXCEPT !.conn = c]
    /\ UNCHANGED <<_public_sio, _auth_sio, _listen_key, _callbacks, closing,
                   closed>>
    /\ UNCHANGED <<api_key, api_secret, callvars>>

\* The server disconnects a connected client; the client does not reconnect
\* after a disconnect the server asked for.
RemoteDisconnect ==
    /\ \E c \in Clients :
           /\ conns[c].state = "connected"
           /\ conns' = [conns EXCEPT ![c].state = "disconnected",
                                     ![c].retry = FALSE]
           /\ last' = [Step("remote_disconnect") EXCEPT !.conn = c]
    /\ UNCHANGED <<_public_sio, _auth_sio, _listen_key, _callbacks, closing,
                   closed>>
    /\ UNCHANGED <<api_key, api_secret, callvars>>

\* The reconnect task of a client makes a connection attempt.
Reconnect ==
    /\ \E c \in Clients :
           /\ conns[c].state = "disconnected"
           /\ conns[c].retry
           /\ conns' = [conns EXCEPT ![c].state = "connecting"]
           /\ last' = [Step("reconnect") EXCEPT !.conn = c]
    /\ UNCHANGED <<_public_sio, _auth_sio, _listen_key, _callbacks, closing,
                   closed>>
    /\ UNCHANGED <<api_key, api_secret, callvars>>

\* The event types a server sends on a connection: those of the
\* connection's kind and types the client does not know.
ServerEvents(kind) == (EventTypes \cap Registered(kind)) \cup {"unknownEvent"}

\* The server sends an event to a connected client; the client calls the
\* handler registered for the event type, if it has one.
Inbound ==
    /\ \E c \in Clients :
           /\ conns[c].state = "connected"
           /\ \E tag \in ServerEvents(conns[c].kind), data \in Payloads :
                  last' = [Step("inbound") EXCEPT
                              !.conn = c, !.tag = tag, !.payload = data,
                              !.invoked = handler(_callbacks, conns[c].kind,
                                                  tag, data)]
    /\ UNCHANGED <<_public_sio, _auth_sio, _listen_key, _callbacks, conns,
                   closing, closed>>
    /\ UNCHANGED <<api_key, api_secret, callvars>>

\* A step of the supervisor used without the wrapper, on one event loop that
\* is never stopped.
WsNext ==
    \/ ConnectPublic /\ UNCHANGED wcvars
    \/ ConnectAuthenticated /\ UNCHANGED wcvars
    \/ SubscribePublic /\ UNCHANGED wcvars
    \/ On /\ UNCHANGED wcvars
    \/ Close /\ UNCHANGED wcvars
    \/ CloseFinish /\ UNCHANGED wcvars
    \/ DisconnectDone /\ UNCHANGED wcvars
    \/ ConnectAck /\ UNCHANGED wcvars
    \/ ConnectFail /\ UNCHANGED wcvars
    \/ TransportDrop /\ UNCHANGED wcvars
    \/ RemoteDisconnect /\ UNCHANGED wcvars
    \/ Reconnect /\ UNCHANGED wcvars
    \/ Inbound /\ UNCHANGED wcvars

\* The clients whose supervisor is followed: without an api key, without a
\* secret, with both.
StreamCredentials ==
    {<<NoneV, StrV(<<"s">>)>>, <<StrV(<<"k">>), NoneV>>,
     <<StrV(<<"k">>), StrV(<<>>)>>, <<StrV(<<"k">>), StrV(<<"s">>)>>}

WsInit ==
    /\ Init
    /\ <<api_key, api_secret>> \in StreamCredentials

WsSpec == WsInit /\ [][WsNext]_vars

(***************************************************************************)
(* Properties of the dispatcher.                                           *)
(***************************************************************************)
\* The value of header name of a transmitted request; None when the header
\* is not there.
HeaderGet(request, name) == DictGet(request.headers, name, NoneV)

\* The query string or body a request carries.
Transmitted(request) ==
    IF request.method = "GET" THEN request.query ELSE request.body

\* An authenticated dispatch call has ended.
AuthCallEnded == pc = "returned" /\ ~call.public

\* C1: for every authenticated request that a client with credentials sends
\* (and that reaches the server), the string handed to _generate_signature
\* is byte-identical to the query string (GET) or the body (POST, PUT,
\* DELETE) transmitted.
C1_SignedIsTransmitted ==
    (AuthCallEnded /\ api_key # NoneV /\ ~received.err) =>
        \A i \in 1..Len(wire) : signed = <<Transmitted(wire[i])>>

\* The mapping an authenticated call serialises: the caller's parameters
\* with the timestamp of the call stored under "timestamp".
C2_Mapping ==
    DictSet(IF call.params.given THEN call.params.d ELSE <<>>,
            TIMESTAMP, StrV(IntToStr(call.ms)))

\* The canonical serialisation of the mapping: key=value pairs joined by
\* "&" for a GET, compact JSON (no whitespace between tokens) otherwise.
C2_Canonical ==
    LET m == C2_Mapping
    IN  IF call.op = "get_request"
        THEN Join([i \in 1..Len(m) |-> m[i].k \o <<"=">> \o PyStr(m[i].v)],
                  <<"&">>)
        ELSE <<"{">>
             \o Join([i \in 1..Len(m) |->
                         JsonString(m[i].k) \o <<":">> \o JsonScalar(m[i].v)],
                     <<",">>)
             \o <<"}">>

\* C2: the payload an authenticated call signs is the canonical
\* serialisation of the caller's parameters plus the timestamp, in insertion
\* order, and the signature header of the request is the MAC of exactly that
\* payload under the configured secret.
C2_SignedPayloadCanonical ==
    AuthCallEnded =>
        /\ signed = <<C2_Canonical>>
        /\ \A i \in 1..Len(wire) :
              HeaderGet(wire[i], "signature")
                  = [t |-> "hmac", s |-> C2_Canonical, n |-> 0, b |-> FALSE,
                     k |-> api_secret.s]

\* A signed POST of two caller parameters, "b" before "a", was sent.
C2_Witness ==
    /\ AuthCallEnded
    /\ call.op = "post_request"
    /\ Len(wire) = 1
    /\ Len(call.params.d) = 2
    /\ call.params.d[1].k = <<"b">>
    /\ call.params.d[2].k = <<"a">>

\* C3: an authenticated dispatch on a client whose api key or api secret is
\* absent fails with the configuration error and sends no HTTP request.
C3_NoCredentialsNoRequest ==
    (AuthCallEnded /\ (api_key = NoneV \/ api_secret = NoneV)) =>
        /\ outcome.kind = "ValueError"
        /\ wire = <<>>

\* C4: with the secret None or empty, _generate_signature raises for every
\* payload handed to it, the call ends in that error with nothing sent; no
\* request ever carries a signature computed with an empty key.
C4_NoSignatureWithoutSecret ==
    (pc = "returned" /\ signed # <<>>) =>
        /\ (api_secret = NoneV \/ api_secret = StrV(<<>>)) =>
              /\ \A i \in 1..Len(signed) :
                    _generate_signature(api_secret, signed[i]).raised
              /\ outcome.kind = "ValueError"
              /\ wire = <<>>
        /\ \A i \in 1..Len(wire) :
              /\ HeaderGet(wire[i], "signature").t = "hmac"
              /\ HeaderGet(wire[i], "signature").k # <<>>

\* A payload was handed to the signer of a client whose secret is "".
C4_Witness ==
    /\ pc = "returned"
    /\ signed # <<>>
    /\ api_secret = StrV(<<>>)
    /\ outcome.kind = "ValueError"

\* C5: a request dispatched with public=True goes to the public base URL
\* and has nothing attached: its parameters are exactly the caller's (so no
\* timestamp the caller did not pass), it has no signature header and no
\* api-key header, and nothing is signed, whatever the credentials.
C5_PublicUnsigned ==
    (pc = "returned" /\ call.public) =>
        /\ signed = <<>>
        /\ Len(wire) = 1
        /\ \A i \in 1..Len(wire) :
              /\ wire[i].base = public_url
              /\ wire[i].params = (IF call.params.given THEN call.params.d ELSE <<>>)
              /\ (~HasKey(call.params.d, TIMESTAMP) =>
                    ~HasKey(wire[i].params, TIMESTAMP))
              /\ ~HasKey(wire[i].headers, "signature")
              /\ ~HasKey(wire[i].headers, "api-key")

\* A public request was sent by a client that has both credentials.
C5_Witness ==
    /\ pc = "returned"
    /\ call.public
    /\ call.op = "post_request"
    /\ api_key # NoneV
    /\ Truthy(api_secret)
    /\ Len(wire) = 1

\* A response with this status and body came back.
Is2xx(status) == 200 <= status /\ status < 300

GotResponse == pc = "returned" /\ Len(wire) = 1 /\ ~received.err

\* The body of the response, parsed, when it is a JSON object; the empty
\* object otherwise.
BodyObject ==
    IF ResponseJson(received.text).value.t = "dict"
    THEN ResponseJson(received.text).value.items
    ELSE <<>>

\* C6: a non-2xx response whose body parses as JSON (an object or not)
\* yields Pi42APIError with the HTTP status, the body's message or "Unknown
\* error", and the body's code or None.
C6_JsonErrorIsApiFailure ==
    (GotResponse /\ ~Is2xx(received.status) /\ ResponseJson(received.text).valid) =>
        /\ outcome.kind = "Pi42APIError"
        /\ outcome.status = received.status
        /\ outcome.message =
              (IF HasKey(BodyObject, MESSAGE)
               THEN DictGet(BodyObject, MESSAGE, NoneV)
               ELSE StrV(UNKNOWN_ERROR))
        /\ outcome.code = DictGet(BodyObject, CODE, NoneV)

\* C7: a non-2xx response whose body is not JSON yields Pi42APIError with
\* the HTTP status, the body text as message and no code, not
\* Pi42RequestError.
C7_TextErrorIsApiFailure ==
    (GotResponse /\ ~Is2xx(received.status) /\ ~ResponseJson(received.text).valid) =>
        /\ outcome.kind = "Pi42APIError"
        /\ outcome.status = received.status
        /\ outcome.message = StrV(received.text)
        /\ outcome.code = NoneV

\* C8: a 2xx response is returned, never raised: the parsed JSON value when
\* the body parses, the raw text of the body when it does not.
C8_SuccessReturnsPayload ==
    (GotResponse /\ Is2xx(received.status)) =>
        /\ outcome.kind = "return"
        /\ ResponseJson(received.text).valid =>
              outcome.payload = ResponseJson(received.text).value
        /\ ~ResponseJson(received.text).valid =>
              /\ outcome.payload.t = "str"
              /\ outcome.payload.s = received.text

\* A 201 response with a body that is not JSON was returned as text.
C8_Witness ==
    /\ GotResponse
    /\ received.status = 201
    /\ received.text = BODY_TEXT
    /\ outcome.payload.s = BODY_TEXT

\* C9: when the transport fails, the call ends in Pi42RequestError carrying
\* the description of the underlying error, and the request was handed to
\* the transport exactly once.
C9_TransportFailureOnce ==
    (pc = "returned" /\ received.err) =>
        /\ outcome.kind = "Pi42RequestError"
        /\ outcome.message = StrV(received.desc)
        /\ Len(wire) = 1

\* The transport failed under a delete_request.
C9_Witness ==
    /\ pc = "returned"
    /\ received.err
    /\ call.op = "delete_request"
    /\ outcome.kind = "Pi42RequestError"

\* C10: a dispatch call on a client with credentials ends in a returned
\* payload, Pi42APIError or Pi42RequestError and in nothing else, and a
\* non-2xx response is never returned as a payload.
C10_ThreeOutcomes ==
    (pc = "returned" /\ api_key # NoneV /\ Truthy(api_secret)) =>
        /\ outcome.kind \in {"return", "Pi42APIError", "Pi42RequestError"}
        /\ (~received.err /\ ~Is2xx(received.status)) => outcome.kind # "return"

(***************************************************************************)
(* Properties of the stream supervisor.                                    *)
(***************************************************************************)
\* The last step called subscribe_public: the caller did, or the connect
\* handler of a public client whose connect_public call had topics.
SubscribeCalled ==
    \/ last.op = "subscribe_public"
    \/ /\ last.op = "connect_ack"
       /\ conns[last.conn].kind = "public"
       /\ TopicsTruthy(conns[last.conn].topics)

\* The public connection of the supervisor is connected: there is one and
\* its client has not been disconnected.
PublicConnected ==
    /\ _public_sio # NoConn
    /\ IsConnected(conns[_public_sio])

\* C11: a subscribe_public call made while the supervisor's public
\* connection is not connected (there is none, its handshake is not
\* acknowledged, or it is disconnected) fails with a not-connected error,
\* the ValueError of the supervisor or the BadNamespaceError of the socket
\* client, and emits no message.
C11_SubscribeNeedsConnected ==
    (SubscribeCalled /\ ~PublicConnected) =>
        /\ last.err \in {"ValueError", "BadNamespaceError"}
        /\ last.emits = <<>>

\* subscribe_public was called while the handshake was not acknowledged.
C11_Witness ==
    /\ last.op = "subscribe_public"
    /\ _public_sio # NoConn
    /\ conns[_public_sio].state = "connecting"
    /\ last.err = "BadNamespaceError"
    /\ last.emits = <<>>

\* C12: once a close() has returned, no callback is invoked for an event of
\* a client that had been created before that close() was called.
C12_NoCallbackAfterClose ==
    (last.op = "inbound" /\ last.invoked # <<>>) => last.conn \notin closed

\* A client is live: its handshake is under way or it is connected.
Live(c) == conns[c].state \in {"connecting", "connected", "disconnecting"}

\* C13: at every moment at most one public client and at most one
\* authenticated client of the supervisor is live.
C13_AtMostOneLive ==
    \A kind \in {"public", "auth"} :
        Cardinality({c \in Clients : conns[c].kind = kind /\ Live(c)}) <= 1

\* C14: when close() returns, every client created before it was called is
\* disconnected and the supervisor holds no client.
C14_CloseLeavesDisconnected ==
    last.op = "close" =>
        /\ \A c \in closed : conns[c].state = "disconnected"
        /\ _public_sio = NoConn
        /\ _auth_sio = NoConn

\* No client is connected.
NothingConnected == \A c \in Clients : ~IsConnected(conns[c])

\* C15: close() called while no client is connected returns without an
\* error, disconnects nothing, sends nothing, leaves the supervisor without
\* a client and leaves the callbacks and the listen key as they were.
C15_CloseIdleIsNoOp ==
    [][(Close /\ NothingConnected) =>
          /\ last'.op = "close"
          /\ last'.err = ""
          /\ last'.started = {}
          /\ last'.emits = <<>>
          /\ last'.http = <<>>
          /\ conns' = conns
          /\ _public_sio' = NoConn
          /\ _auth_sio' = NoConn
          /\ _callbacks' = _callbacks
          /\ _listen_key' = _listen_key]_vars

\* close() was called after an earlier close() had disconnected the client,
\* with a callback registered.
C15_Witness ==
    /\ last.op = "close"
    /\ last.started = {}
    /\ conns # <<>>
    /\ \A c \in Clients : conns[c].state = "disconnected"
    /\ _callbacks["24hrTicker"] = 2

\* C16: for an inbound event of a type the client has a handler for and a
\* callback is registered for, the callback is invoked once with the data
\* of the event; for an event of another type or without a callback,
\* nothing is invoked; in both cases no error is raised and the client
\* stays connected.
C16_DispatchOnce ==
    last.op = "inbound" =>
        LET known == last.tag \in Registered(conns[last.conn].kind)
            callback == _callbacks[last.tag]
        IN  /\ (known /\ callback # 0) =>
                last.invoked = <<[callback |-> callback, data |-> last.payload]>>
            /\ (~known \/ callback = 0) => last.invoked = <<>>
            /\ last.err = ""
            /\ conns[last.conn].state = "connected"

\* A 24hrTicker event was dispatched to the callback registered for it.
C16_Witness ==
    /\ last.op = "inbound"
    /\ last.tag = "24hrTicker"
    /\ last.invoked = <<[callback |-> 2, data |-> "tick"]>>

\* C17: an on() call stores the callback it is given under its event type,
\* in place of the callback that was there, and leaves the callbacks of the
\* other event types as they were; no other step changes the registry.
C17_LastWriterWins ==
    [][IF last'.op = "on"
       THEN /\ _callbacks'[last'.tag] = last'.callback
            /\ \A t \in EventTypes \ {last'.tag} : _callbacks'[t] = _callbacks[t]
       ELSE _callbacks' = _callbacks]_vars

\* A second registration for 24hrTicker replaced the callback, next to a
\* callback for newOrder.
C17_Witness ==
    /\ last.op = "on"
    /\ last.tag = "24hrTicker"
    /\ last.callback = 2
    /\ _callbacks["24hrTicker"] = 2
    /\ _callbacks["newOrder"] = 1

\* C18: an event dispatched on a public or an authenticated client, of a
\* type the client has a handler for, goes to the callback that the
\* registry holds for the type when the event arrives, which is the one of
\* the latest on() call, made before or after the client connected.
C18_RegistrationServesDispatch ==
    [][last'.op = "inbound" =>
          LET kind == conns'[last'.conn].kind
              callback == _callbacks[last'.tag]
          IN  (last'.tag \in Registered(kind) /\ callback # 0) =>
                  \E i \in 1..Len(last'.invoked) :
                      last'.invoked[i].callback = callback]_vars

\* A newOrder event of the authenticated client went to its callback while
\* the public client was connected with a callback of its own.
C18_Witness ==
    /\ last.op = "inbound"
    /\ conns[last.conn].kind = "auth"
    /\ last.tag = "newOrder"
    /\ last.invoked = <<[callback |-> 1, data |-> "tick"]>>
    /\ \E c \in Clients :
           conns[c].kind = "public" /\ conns[c].state = "connected"
    /\ _callbacks["24hrTicker"] # 0

\* C19: a client that is disconnected stays disconnected: no connection
\* attempt is made for it.
C19_DroppedStaysDisconnected ==
    [][\A c \in Clients :
          conns[c].state = "disconnected" => conns'[c].state = "disconnected"]_vars

\* A call of connect_authenticated without a listen key on a client that
\* lacks its api key or its secret.
NoKeyNoCredentials(step) ==
    /\ step.op = "connect_authenticated"
    /\ ~Truthy(step.key)
    /\ ~Truthy(api_key) \/ ~Truthy(api_secret)

\* C20: connect_authenticated without a listen key on a client that lacks
\* its api key or its secret raises a ValueError; no HTTP request is sent,
\* no client is created, and the listen key and the authenticated client of
\* the supervisor are as before.
C20_NoCredentialsNoConnect ==
    [][NoKeyNoCredentials(last') =>
          /\ last'.err = "ValueError"
          /\ last'.http = <<>>
          /\ last'.conn = NoConn
          /\ conns' = conns
          /\ _listen_key' = _listen_key
          /\ _auth_sio' = _auth_sio]_vars

\* The call failed on a supervisor that had connected with a given key.
C20_Witness ==
    /\ NoKeyNoCredentials(last)
    /\ last.err = "ValueError"
    /\ _listen_key = StrV(<<"L">>)
    /\ _auth_sio # NoConn

(***************************************************************************)
(* The endpoint facades (ExchangeAPI, MarketAPI) that the examples call as *)
(* the public API.  A facade builds the endpoint and the params and hands  *)
(* them to the dispatcher.  An endpoint built by an f-string is the        *)
(* sequence of its literal part and the characters put into it.            *)
(***************************************************************************)
UpperCase ==
    <<"A", "B", "C", "D", "E", "F", "G", "H", "I", "J", "K", "L", "M",
      "N", "O", "P", "Q", "R", "S", "T", "U", "V", "W", "X", "Y", "Z">>

LowerCase ==
    <<"a", "b", "c", "d", "e", "f", "g", "h", "i", "j", "k", "l", "m",
      "n", "o", "p", "q", "r", "s", "t", "u", "v", "w", "x", "y", "z">>

\* str.lower()
Lower(x) ==
    [i \in 1..Len(x) |->
        IF \E j \in 1..26 : UpperCase[j] = x[i]
        THEN LowerCase[CHOOSE j \in 1..26 : UpperCase[j] = x[i]]
        ELSE x[i]]

\* str.upper()
Upper(x) ==
    [i \in 1..Len(x) |->
        IF \E j \in 1..26 : LowerCase[j] = x[i]
        THEN UpperCase[CHOOSE j \in 1..26 : LowerCase[j] = x[i]]
        ELSE x[i]]

\* params[key] = value if value (the optional arguments of the facades)
SetIfTruthy(d, key, v) == IF Truthy(v) THEN DictSet(d, key, v) ELSE d

\* ExchangeAPI.get_exchange_info: the dispatcher is called without public.
get_exchange_info(market, ms, reply) ==
    LET params == SetIfTruthy(<<>>, <<"m", "a", "r", "k", "e", "t">>, market)
    IN  get_request("/v1/exchange/exchangeInfo",
                    [given |-> TRUE, d |-> params], FALSE, ms, reply)

\* MarketAPI.get_ticker_24hr
get_ticker_24hr(contract_pair, ms, reply) ==
    get_request(<<"/v1/market/ticker24Hr/">> \o Lower(contract_pair),
                [given |-> FALSE, d |-> <<>>], TRUE, ms, reply)

\* MarketAPI.get_agg_trades
get_agg_trades(contract_pair, ms, reply) ==
    get_request(<<"/v1/market/aggTrade/">> \o Lower(contract_pair),
                [given |-> FALSE, d |-> <<>>], TRUE, ms, reply)

\* MarketAPI.get_depth
get_depth(contract_pair, ms, reply) ==
    get_request(<<"/v1/market/depth/">> \o Lower(contract_pair),
                [given |-> FALSE, d |-> <<>>], TRUE, ms, reply)

\* MarketAPI.get_klines
get_klines(pair, interval, start_time, end_time, limit, ms, reply) ==
    LET p0 == <<[k |-> <<"p", "a", "i", "r">>, v |-> StrV(Upper(pair))],
                [k |-> <<"i", "n", "t", "e", "r", "v", "a", "l">>,
                 v |-> StrV(Lower(interval))]>>
        p1 == SetIfTruthy(p0, <<"s", "t", "a", "r", "t", "T", "i", "m", "e">>,
                          start_time)
        p2 == SetIfTruthy(p1, <<"e", "n", "d", "T", "i", "m", "e">>, end_time)
        p3 == SetIfTruthy(p2, <<"l", "i", "m", "i", "t">>, limit)
    IN  post_request("/v1/market/klines", [given |-> TRUE, d |-> p3], TRUE,
                     ms, reply)

\* Arguments of the examples and their neighbours.
ContractPairs == {<<"b", "t", "c">>, <<"B", "t", "c">>}

Intervals == {<<"1", "h">>, <<"1", "H">>}

OptionalInts == {NoneV, IntV(0), IntV(5)}

Markets == {NoneV, StrV(<<"I", "N", "R">>)}

GetExchangeInfo ==
    /\ pc = "idle"
    /\ \E market \in Markets, ms \in Times, reply \in Replies :
           get_exchange_info(market, ms, reply)

GetTicker24hr ==
    /\ pc = "idle"
    /\ \E contract_pair \in ContractPairs, ms \in Times, reply \in Replies :
           get_ticker_24hr(contract_pair, ms, reply)

GetAggTrades ==
    /\ pc = "idle"
    /\ \E contract_pair \in ContractPairs, ms \in Times, reply \in Replies :
           get_agg_trades(contract_pair, ms, reply)

GetDepth ==
    /\ pc = "idle"
    /\ \E contract_pair \in ContractPairs, ms \in Times, reply \in Replies :
           get_depth(contract_pair, ms, reply)

GetKlines ==
    /\ pc = "idle"
    /\ \E pair \in ContractPairs, interval \in Intervals,
          start_time \in {NoneV, IntV(7)}, limit \in OptionalInts,
          ms \in Times, reply \in Replies :
           get_klines(pair, interval, start_time, NoneV, limit, ms, reply)

ApiNext ==
    \/ GetExchangeInfo
    \/ GetTicker24hr
    \/ GetAggTrades
    \/ GetDepth
    \/ GetKlines
    \/ Return

ApiSpec == Init /\ [][ApiNext]_vars

(***************************************************************************)
(* Properties of the endpoint facades.                                     *)
(***************************************************************************)
\* A call of a facade by a client constructed without credentials has ended.
NoCredentialsCallEnded ==
    pc = "returned" /\ api_key = NoneV /\ api_secret = NoneV

\* C22: every REST call the examples present as public API usage (exchange
\* info, 24hr ticker, klines, depth, aggregated trades), made on a client
\* constructed without credentials, is dispatched unsigned to the public
\* base URL and ends by returning or with Pi42APIError or Pi42RequestError.
C22_PublicCallsNeedNoCredentials ==
    NoCredentialsCallEnded =>
        /\ signed = <<>>
        /\ Len(wire) = 1
        /\ wire[1].base = public_url
        /\ ~HasKey(wire[1].headers, "signature")
        /\ outcome.kind \in {"return", "Pi42APIError", "Pi42RequestError"}

(***************************************************************************)
(* Properties of the listen key.                                           *)
(***************************************************************************)
\* C24: a connect_authenticated call without a listen key that obtains no
\* key from create_listen_key ends in an error and creates no socket client,
\* and every authenticated client is created under a namespace built from a
\* present, non-empty listen key.
C24_ListenKeyOrNoConnect ==
    /\ \A c \in Clients :
          conns[c].kind = "auth" =>
              conns[c].key.t = "str" /\ conns[c].key.s # <<>>
    /\ (last.op = "connect_authenticated" /\ ~Truthy(last.key)
            /\ ~Truthy(_listen_key)) =>
          last.err # "" /\ last.conn = NoConn

(***************************************************************************)
(* Properties of the subscription of connect_public.                       *)
(***************************************************************************)
\* The message a connect_public(topics) call is to emit on its client c.
SubscribeOf(c) ==
    [conn |-> c, event |-> "subscribe", params |-> conns[c].topics]

\* C25: when the handshake of the client of a connect_public(topics) call
\* succeeds, the connect handler emits exactly one subscribe message
\* carrying the topics, on that client, if topics is non-empty and this is
\* the first time the client connects; it emits nothing when topics is
\* empty or absent, and nothing on any later connect of the client.
C25_OneSubscribePerConnect ==
    [][(last'.op = "connect_ack" /\ conns[last'.conn].kind = "public") =>
          last'.emits =
              IF ~conns[last'.conn].retry
                 /\ TopicsTruthy(conns[last'.conn].topics)
              THEN <<SubscribeOf(last'.conn)>>
              ELSE <<>>]_vars

(***************************************************************************)
(* Properties of the secret.  A digest HmacSha256(secret, data) reveals    *)
(* nothing of its key; everything else that is sent is text.               *)
(***************************************************************************)
\* The secret of a second client that differs from the first in its secret
\* only; the text occurs in nothing else that a client sends.
ProbeSecret == <<"z", "9">>

\* The text x contains the text sub.
Contains(x, sub) ==
    \E i \in 1..(Len(x) - Len(sub) + 1) : SubSeq(x, i, i + Len(sub) - 1) = sub

\* A request without its signature header.
WithoutSignature(request) ==
    [request EXCEPT !.headers = SelectSeq(request.headers,
                                          LAMBDA h : h.k # "signature")]

\* Nothing of a request contains the secret: not the query string, not the
\* body, not a header; the only value that is not text is the digest of the
\* signature header.
SecretFree(request, secret) ==
    /\ ~Contains(request.query, secret)
    /\ ~Contains(request.body, secret)
    /\ \A i \in 1..Len(request.headers) :
          LET h == request.headers[i]
          IN  IF h.v.t = "str" THEN ~Contains(h.v.s, secret)
              ELSE h.k = "signature" /\ h.v.t = "hmac"

\* The request of the ended call as the second client builds it.
ProbeRequest ==
    Prepared(MethodOf(call.op), call.endpoint, call.params, call.public,
             call.ms, StrV(ProbeSecret)).request

\* The listen-key request of a stream operation as the second client
\* builds it.
ProbeListenKeyRequest(ms) ==
    Prepared("POST", "/v1/retail/listen-key", [given |-> FALSE, d |-> <<>>],
             FALSE, ms, StrV(ProbeSecret)).request

\* C23: the secret appears in nothing that is sent.  The request of every
\* dispatch, and the listen-key request of connect_authenticated, is the
\* same for two clients that differ in their secret only except for the
\* signature header, which holds a digest, and no query string, body or
\* header of it contains the secret.
C23_SecretNeverSent ==
    /\ (pc = "returned" /\ wire # <<>>) =>
          /\ WithoutSignature(wire[1]) = WithoutSignature(ProbeRequest)
          /\ SecretFree(ProbeRequest, ProbeSecret)
          /\ \A i \in 1..Len(wire[1].headers) :
                wire[1].headers[i].v.t # "str" =>
                    /\ wire[1].headers[i].k = "signature"
                    /\ wire[1].headers[i].v.t = "hmac"
    /\ Truthy(api_secret) =>
          \A ms \in Times, reply \in ListenKeyReplies :
              LET sent == create_listen_key(ms, reply).wire
              IN  /\ Len(sent) = 1
                  /\ WithoutSignature(sent[1])
                        = WithoutSignature(ProbeListenKeyRequest(ms))
                  /\ SecretFree(ProbeListenKeyRequest(ms), ProbeSecret)
                  /\ HeaderGet(sent[1], "signature").t = "hmac"

\* An authenticated request was sent, and the second client's request
\* differs from it, in the signature.
C23_Witness ==
    /\ pc = "returned"
    /\ ~call.public
    /\ Len(wire) = 1
    /\ HasKey(wire[1].headers, "signature")
    /\ wire[1] # ProbeRequest

(***************************************************************************)
(* The synchronous wrapper (WebSocketClient).  The caller's thread calls   *)
(* connect_public, connect_authenticated, on and close; every event loop   *)
(* the wrapper creates is run by a thread of its own, which runs the       *)
(* coroutines of the supervisor, the socket clients created on the loop    *)
(* and their handlers, callbacks included.  A coroutine runs without       *)
(* interruption up to its await.  The transports of this specification     *)
(* neither drop nor are disconnected by the server.                        *)
(***************************************************************************)
\* A task made by loop.create_task for a connect coroutine: nothing awaits
\* it and nothing reads its result or its exception.
Task(co, c, state, exception) ==
    [co |-> co, conn |-> c, state |-> state, exception |-> exception,
     awaited |-> FALSE]

\* The thread t is inside future.result() of close().
Waits(t) == closer.state # "none" /\ closer.thread = t

\* The loop l runs callbacks and coroutines: run_forever has not been
\* stopped and the loop's thread is not waiting inside a callback.
LoopRuns(l) == loops[l] = "running" /\ ~Waits(l)

\* The callbacks of the caller that call close() of the wrapper.
ClosingCallbacks == {2}

\* The task of the connect coroutine that awaits the handshake of client c
\* ends, with the exception the connect raised.
TaskEnds(c, exception) ==
    [i \in 1..Len(all_tasks) |->
        IF all_tasks[i].conn = c /\ all_tasks[i].state = "pending"
        THEN [all_tasks[i] EXCEPT !.state = "done", !.exception = exception]
        ELSE all_tasks[i]]

\* WebSocketClient.connect_public: a new loop and a new thread on every
\* call; the task of the connect coroutine is kept in _task and the call
\* returns.
ClientConnectPublic ==
    /\ ~Waits(MainThread)
    /\ Len(conns) < MaxConns
    /\ Len(loops) < MaxLoops
    /\ Len(all_tasks) < MaxTasks
    /\ \E topics \in TopicArgs : connect_public(topics)
    /\ loops' = Append(loops, "running")
    /\ _loop' = Len(loops) + 1
    /\ home' = Append(home, Len(loops) + 1)
    /\ all_tasks' = Append(all_tasks,
                           Task("connect_public", Len(conns) + 1, "pending", ""))
    /\ _task' = Len(all_tasks) + 1
    /\ UNCHANGED closer
    /\ UNCHANGED <<api_key, api_secret, callvars>>

\* WebSocketClient.connect_authenticated: a loop and a thread are created
\* if the wrapper holds none; the connect coroutine is made a task on the
\* loop by call_soon_threadsafe and the call returns.  The task runs the
\* supervisor's connect_authenticated up to its await of sio.connect.
ClientConnectAuthenticated ==
    /\ ~Waits(MainThread)
    /\ Len(conns) < MaxConns
    /\ Len(all_tasks) < MaxTasks
    /\ IF _loop = NoLoop THEN Len(loops) < MaxLoops ELSE LoopRuns(_loop)
    /\ \E listen_key \in ListenKeyArgs, ms \in Times,
          reply \in ListenKeyReplies :
           connect_authenticated(listen_key, ms, reply)
    /\ LET l == IF _loop = NoLoop THEN Len(loops) + 1 ELSE _loop
       IN  /\ loops' = IF _loop = NoLoop THEN Append(loops, "running")
                       ELSE loops
           /\ _loop' = l
           /\ home' = IF last'.conn = NoConn THEN home ELSE Append(home, l)
           /\ all_tasks' =
                  Append(all_tasks,
                         Task("connect_authenticated", last'.conn,
                              IF last'.err = "" THEN "pending" ELSE "done",
                              last'.err))
    /\ UNCHANGED <<_task, closer>>
    /\ UNCHANGED <<api_key, api_secret, callvars>>

\* WebSocketClient.on
ClientOn ==
    /\ ~Waits(MainThread)
    /\ On
    /\ UNCHANGED wcvars

\* WebSocketClient.close called by thread t up to future.result(): without
\* a loop it does nothing; otherwise the close coroutine is handed to the
\* loop and the thread waits for its result.
close(t) ==
    /\ closer.state = "none"
    /\ _loop # NoLoop
    /\ closer' = [thread |-> t, loop |-> _loop, state |-> "waiting"]
    /\ UNCHANGED <<_loop, _task, loops, home, all_tasks>>

\* The caller's thread calls close().
ClientClose ==
    /\ ~Waits(MainThread)
    /\ close(MainThread)
    /\ last' = Step("client_close")
    /\ UNCHANGED <<_public_sio, _auth_sio, _listen_key, _callbacks, conns,
                   closing, closed>>
    /\ UNCHANGED <<api_key, api_secret, callvars>>

\* A callback that has just been invoked by a handler calls close(): it
\* runs on the thread of the loop of the client that received the event.
CallbackClose ==
    /\ last.op = "inbound"
    /\ \E i \in 1..Len(last.invoked) :
           last.invoked[i].callback \in ClosingCallbacks
    /\ close(home[last.conn])
    /\ last' = [last EXCEPT !.op = "callback_close"]
    /\ UNCHANGED <<_public_sio, _auth_sio, _listen_key, _callbacks, conns,
                   closing, closed>>
    /\ UNCHANGED <<api_key, api_secret, callvars>>

\* The end of close(): future.result() returns, the loop the wrapper holds
\* is stopped and forgotten.
ClientCloseReturn ==
    /\ loops' = IF _loop = NoLoop THEN loops
                ELSE [loops EXCEPT ![_loop] = "stopped"]
    /\ _loop' = NoLoop
    /\ _task' = NoTask
    /\ closer' = NoCloser
    /\ UNCHANGED <<home, all_tasks>>

\* The loop runs the close coroutine: the supervisor's close() up to its
\* await, to its end when it has nothing to await.
CloseRun ==
    /\ closer.state = "waiting"
    /\ LoopRuns(closer.loop)
    /\ Close
    /\ IF closing' = NotClosing
       THEN ClientCloseReturn
       ELSE /\ closer' = [closer EXCEPT !.state = "running"]
            /\ UNCHANGED <<_loop, _task, loops, home, all_tasks>>

\* The gather of the close coroutine returns, and with it future.result().
CloseDone ==
    /\ closer.state = "running"
    /\ LoopRuns(closer.loop)
    /\ CloseFinish
    /\ ClientCloseReturn

\* A disconnect completes on the loop of its client.
ClientDisconnectDone ==
    /\ DisconnectDone
    /\ LoopRuns(home[last'.conn])
    /\ UNCHANGED wcvars

\* A handshake is acknowledged on the loop of its client; the connect
\* coroutine and its task end.
ClientConnectAck ==
    /\ ConnectAck
    /\ LoopRuns(home[last'.conn])
    /\ all_tasks' = TaskEnds(last'.conn, "")
    /\ UNCHANGED <<_loop, _task, loops, home, closer>>

\* A handshake fails: sio.connect raises in the connect coroutine, whose
\* task ends with the exception.
ClientConnectFail ==
    /\ ConnectFail
    /\ LoopRuns(home[last'.conn])
    /\ all_tasks' = TaskEnds(last'.conn, last'.err)
    /\ UNCHANGED <<_loop, _task, loops, home, closer>>

\* An event arrives on the loop of its client.
ClientInbound ==
    /\ Inbound
    /\ LoopRuns(home[last'.conn])
    /\ UNCHANGED wcvars

ClientNext ==
    \/ ClientConnectPublic
    \/ ClientConnectAuthenticated
    \/ ClientOn
    \/ ClientClose
    \/ CallbackClose
    \/ CloseRun
    \/ CloseDone
    \/ ClientDisconnectDone
    \/ ClientConnectAck
    \/ ClientConnectFail
    \/ ClientInbound

ClientSpec == WsInit /\ [][ClientNext]_vars

(***************************************************************************)
(* Properties of the synchronous wrapper.                                  *)
(***************************************************************************)
\* C21: every error of a stream operation started through the wrapper
\* (missing credentials, listen-key failure, transport connect failure)
\* reaches the caller of the operation: no connect task ends with an
\* exception that nothing awaits.
C21_ErrorsReachCaller ==
    \A i \in 1..Len(all_tasks) :
        (all_tasks[i].state = "done" /\ all_tasks[i].exception # "") =>
            all_tasks[i].awaited

\* C26: close() of the wrapper returns from whichever thread it is called:
\* in no state does a close() wait for a coroutine that only the waiting
\* thread itself could run, the thread of the loop the coroutine was handed
\* to.
C26_CloseNeverWaitsOnItself ==
    closer.state # "none" => closer.thread # closer.loop

====
